---------------------------- MODULE Spec2Model ----------------------------
(***************************************************************************)
(* Model of function_app.py: the timer-triggered job that lists the        *)
(* commitment plans of an Azure OpenAI account and reports the             *)
(* ProvisionedManaged deployments under it, and the paginated list         *)
(* functions it is built from.                                             *)
(*                                                                         *)
(* The remote service is the environment.  A traversal addresses pages by  *)
(* number: page 1 is the start URL, and a response's nextLink is 0 (no     *)
(* nextLink key) or the number of the page it links to.  The responses     *)
(* the service has given in the current traversal are kept in `served`     *)
(* (history): a page requested again answers as it did before.             *)
(***************************************************************************)
EXTENDS Integers, Sequences, FiniteSets, TLC

\* ------------------------------------------------------------- bounds
\* Pages the service can hold for one collection.
MaxPages == 2
\* Records per page when a list function is called on its own.
MaxPageLen == 2
\* Records per page within a run of timer_trigger.
MaxPageLenRun == 1
\* Timestamps are 0..MaxTime; the clock reads MaxTime - 1.
MaxTime == 2

\* ------------------------------------------------------ JSON values
NoField == "<missing>"
NoneVal == "None"

Times == 0..MaxTime

\* properties.current.endDate: a string with a trailing "Z", a string with
\* no zone marker, a string that is no ISO-8601 timestamp, or no such key.
EndDates ==
    [form : {"Z"}, t : Times]
      \cup {[form |-> "naive", t |-> 0], [form |-> "bad", t |-> 0],
            [form |-> NoField, t |-> 0]}

AutoRenews == {"True", "False", NoField}

PlanRecords ==
    {r \in [name : {"p"}, endDate : EndDates, autoRenew : AutoRenews] :
        r.endDate.form # "Z" => r.autoRenew = "False"}

DeploymentRecords ==
    [name : {"d1", "d2", NoField},
     sku : {"ProvisionedManaged", "Standard", NoField}]

AccountRecords ==
    [name : {"a1", "a2"}, kind : {"OpenAI", "TextAnalytics", NoField}]

SubscriptionRecords == [name : {"s1", "s2"}]

ResourceGroupRecords == [name : {"g1", "g2"}]

ListFunctions ==
    {"list_subscriptions", "list_resource_groups", "list_aoai_services",
     "list_aoai_deployments", "list_aoai_expired_commitment_plans"}

Entries == ListFunctions \cup {"timer_trigger", "delete_aoai_deployments"}

\* Within a run of timer_trigger the collections hold fewer kinds of record.
PlanRecordsRun ==
    {r \in PlanRecords : r.autoRenew # NoField /\ r.endDate.t # MaxTime - 1}

DeploymentRecordsRun ==
    {r \in DeploymentRecords : r.name = "d1" \/ r.sku = "ProvisionedManaged"}

RecordsOf(fn, e) ==
    CASE fn = "list_subscriptions" -> SubscriptionRecords
      [] fn = "list_resource_groups" -> ResourceGroupRecords
      [] fn = "list_aoai_services" -> AccountRecords
      [] fn = "list_aoai_deployments" ->
           IF e = "timer_trigger" THEN DeploymentRecordsRun
           ELSE DeploymentRecords
      [] fn = "list_aoai_expired_commitment_plans" ->
           IF e = "timer_trigger" THEN PlanRecordsRun ELSE PlanRecords

SeqsUpTo(S, n) == UNION {[1..k -> S] : k \in 0..n}

PageLen(e) == IF e = "timer_trigger" THEN MaxPageLenRun ELSE MaxPageLen

\* The nextLink of page `u`: none (0), an earlier page, or the next new page.
NextLinks(u) ==
    ({0} \cup 1..(u - 1)) \cup (IF u < MaxPages THEN {u + 1} ELSE {})

\* What the service can answer to the request for page `u` of the
\* collection `fn` lists: an HTTP error status, a transport error, or a
\* body with or without "value" and with or without "nextLink".
Responses(fn, e, u) ==
    {[status |-> "http", hasValue |-> FALSE, value |-> <<>>, next |-> 0],
     [status |-> "transport", hasValue |-> FALSE, value |-> <<>>, next |-> 0]}
      \cup {[status |-> "ok", hasValue |-> FALSE, value |-> <<>>, next |-> n] :
              n \in (IF e = "timer_trigger" THEN {} ELSE NextLinks(u))}
      \cup [status : {"ok"}, hasValue : {TRUE},
            value : SeqsUpTo(RecordsOf(fn, e), PageLen(e)),
            next : NextLinks(u)]


\* ---------------------------------------------------------- functions
Msg(m, a) == [msg |-> m, arg |-> a]

PyBool(b) == IF b THEN "True" ELSE "False"

\* datetime.now(timezone.utc)
NowUtc == MaxTime - 1

\* is_timestamp_expired: the value returned, or the exception raised
\* (fromisoformat rejects a string that is no timestamp; comparing a
\* datetime without zone with the zone-aware clock is a TypeError).
is_timestamp_expired(ts) ==
    IF ts.form = "bad" THEN [exc |-> "ValueError", val |-> FALSE]
    ELSE IF ts.form = "naive" THEN [exc |-> "TypeError", val |-> FALSE]
    ELSE [exc |-> NoneVal, val |-> ts.t < NowUtc]

\* x["kind"] == "OpenAI"
IsOpenAI(x) == x.kind = "OpenAI"

\* x["sku"]["name"] == "ProvisionedManaged"
IsProvisionedManaged(x) == x.sku = "ProvisionedManaged"

\* list(filter(lambda x: x["kind"] == "OpenAI", value)): a record without
\* the key raises KeyError before anything is added.
FilterAccounts(value) ==
    IF \E k \in 1..Len(value) : value[k].kind = NoField
    THEN [kind |-> "KeyError", items |-> <<>>]
    ELSE [kind |-> "ok", items |-> SelectSeq(value, IsOpenAI)]

\* The line commented out in list_aoai_deployments taken instead of the
\* filter: deployment_list.extend(value).
FilterDeploymentsUnfiltered(value) == [kind |-> "ok", items |-> value]

\* list(filter(lambda x: x["sku"]["name"] == "ProvisionedManaged", value))
FilterDeployments(value) ==
    IF \E k \in 1..Len(value) : value[k].sku = NoField
    THEN [kind |-> "KeyError", items |-> <<>>]
    ELSE [kind |-> "ok", items |-> SelectSeq(value, IsProvisionedManaged)]

\* The condition with the autoRenew test left out.
PlanFlaggedExpiredOnly(autoRenew, has_expired) == has_expired

\* The condition of the if inside the for loop of
\* list_aoai_expired_commitment_plans.
PlanFlagged(autoRenew, has_expired) == autoRenew = "False" /\ has_expired

\* The for loop over one page's records, from record k on: the list as the
\* loop leaves it, what it logged, and how it ended.
RECURSIVE ScanPlans(_, _, _, _)
ScanPlans(values, k, list, logged) ==
    IF k > Len(values)
    THEN [kind |-> "ok", list |-> list, logged |-> logged]
    ELSE LET v == values[k]
             e == is_timestamp_expired(v.endDate)
             logged2 == Append(logged, Msg("has_expired", PyBool(e.val)))
         IN  IF v.endDate.form = NoField
             THEN [kind |-> "KeyError", list |-> list, logged |-> logged]
             ELSE IF e.exc # NoneVal
             THEN [kind |-> e.exc, list |-> list, logged |-> logged]
             ELSE IF v.autoRenew = NoField
             THEN [kind |-> "KeyError", list |-> list, logged |-> logged2]
             ELSE IF PlanFlagged(v.autoRenew, e.val)
             THEN ScanPlans(values, k + 1, Append(list, v), logged2)
             ELSE ScanPlans(values, k + 1, list, logged2)

\* The page handled on a copy of the list: a page whose handling stops
\* leaves the list as it was.
ProcessPlanPageAtomic(list, values) ==
    LET s == ScanPlans(values, 1, list, <<>>)
    IN  IF s.kind = "ok"
        THEN [kind |-> "ok", list |-> s.list \o values, logged |-> s.logged]
        ELSE [kind |-> s.kind, list |-> list, logged |-> s.logged]

\* The body of the try for one commitment-plan page: the for loop, then
\* commitment_plans.extend(values).
ProcessPlanPage(list, values) ==
    LET s == ScanPlans(values, 1, list, <<>>)
    IN  IF s.kind = "ok"
        THEN [kind |-> "ok", list |-> s.list \o values, logged |-> s.logged]
        ELSE s

\* -------------------------------------------------------------- state
VARIABLES
    entry,      \* the function the host (or a caller) invoked
    pc,         \* where the invocation stands
    arg,        \* deployment_name, for delete_aoai_deployments
    environ,    \* os.environ: the three configuration values
    token,      \* timer_trigger's token
    posts,      \* POST requests sent to the identity endpoint
    requested,  \* collections a management GET was sent for
    deletes,    \* DELETE requests sent
    log,        \* logging.info calls, in order
    raised,     \* the exception that left the invocation, or NoneVal
    url,        \* the page the next GET of the traversal asks for
    acc,        \* the list the running list function accumulates
    served,     \* history: the responses of the current traversal
    planPages,  \* history: the responses of the run's plan traversal
    plans,      \* timer_trigger's commitment_plan_to_check
    pi,         \* position of the for loop over the plans
    deps,       \* timer_trigger's aoai_deployments
    di,         \* position of the for loop over the deployments
    result      \* the list a directly called list function returned

vars ==
    <<entry, pc, arg, environ, token, posts, requested, deletes, log, raised,
      url, acc, served, planPages, plans, pi, deps, di, result>>

\* os.getenv of a variable: unset, empty or set.
EnvValues == {NoneVal, "", "x"}

\* The configurations of a run: at most one of the three values is unset
\* or empty.
Environs ==
    {c \in [AZURE_SUBSCRIPTION_ID : EnvValues,
            AZURE_RESOURCE_GROUP_NAME : EnvValues,
            AZURE_OPENAI_SERVICE_NAME : EnvValues] :
        Cardinality({k \in DOMAIN c : c[k] # "x"}) <= 1}

Init ==
    /\ entry \in Entries
    /\ pc = entry
    /\ arg \in (IF entry = "delete_aoai_deployments" THEN {"d1", "d2"} ELSE {""})
    /\ environ \in
         (IF entry = "timer_trigger"
          THEN Environs
          ELSE {[AZURE_SUBSCRIPTION_ID |-> "x",
                 AZURE_RESOURCE_GROUP_NAME |-> "x",
                 AZURE_OPENAI_SERVICE_NAME |-> "x"]})
    /\ token = (IF entry = "timer_trigger" THEN NoneVal ELSE "tok")
    /\ posts = 0
    /\ requested = {}
    /\ deletes = 0
    /\ log = <<>>
    /\ raised = NoneVal
    /\ url = 1
    /\ acc = <<>>
    /\ served = <<>>
    /\ planPages = <<>>
    /\ plans = <<>>
    /\ pi = 1
    /\ deps = <<>>
    /\ di = 1
    /\ result = <<>>

\* ------------------------------------------------- the paginated GET
\* Longest list the model keeps: twice what a chain of distinct pages can
\* accumulate, so that only a traversal that fetches a page again reaches
\* it.  Such a traversal goes on, and the model stops recording what it
\* appends to its list and to the log.
AccLimit == 2 * (2 * MaxPages * PageLen(entry))

Saturated == Len(acc) > AccLimit

Keep(old, new) == IF Saturated THEN old ELSE new

\* The answers the service can give to the GET of page `url`.
Answers(fn) ==
    IF url <= Len(served) THEN {served[url]} ELSE Responses(fn, entry, url)

Serve(r) == IF url <= Len(served) THEN served ELSE Append(served, r)

\* data.get("value", [])
ValueOf(r) == IF r.hasValue THEN r.value ELSE <<>>

\* requests.get(...) of a list function: one request is sent.
Get(collection, r) ==
    /\ requested' = requested \cup {collection}
    /\ served' = Serve(r)

\* The return of a list function that timer_trigger did not call.
Return(list) ==
    /\ pc' = "done"
    /\ result' = list
    /\ acc' = <<>>
    /\ url' = 1
    /\ UNCHANGED <<planPages, plans, pi, deps, di, raised>>

\* The next iteration of the while loop without url = data['nextLink'].
ContinueSamePage(list, next) ==
    /\ acc' = Keep(acc, list)
    /\ url' = url
    /\ UNCHANGED <<pc, result, planPages, plans, pi, deps, di, raised>>

\* url = data['nextLink'] and the next iteration of the while loop.
Continue(list, next) ==
    /\ acc' = Keep(acc, list)
    /\ url' = next
    /\ UNCHANGED <<pc, result, planPages, plans, pi, deps, di, raised>>

\* An exception no except clause of the list function names.
Raise(exc, list) ==
    /\ pc' = "raised"
    /\ raised' = exc
    /\ acc' = list
    /\ UNCHANGED <<url, result, planPages, plans, pi, deps, di>>

\* The except clause an error response ends in.
ErrorMsg(status) ==
    IF status = "http" THEN Msg("HTTP error occurred", "")
    ELSE Msg("Request error occurred", "")

list_subscriptions ==
    /\ pc = "list_subscriptions"
    /\ \E r \in Answers("list_subscriptions") :
         /\ Get("subscriptions", r)
         /\ IF r.status # "ok"
            THEN log' = Append(log, ErrorMsg(r.status)) /\ Return(acc)
            ELSE /\ log' = log
                 /\ IF r.next = 0
                    THEN Return(acc \o ValueOf(r))
                    ELSE Continue(acc \o ValueOf(r), r.next)
    /\ UNCHANGED <<entry, arg, environ, token, posts, deletes>>

list_resource_groups ==
    /\ pc = "list_resource_groups"
    /\ \E r \in Answers("list_resource_groups") :
         /\ Get("resourcegroups", r)
         /\ IF r.status # "ok"
            THEN log' = Append(log, ErrorMsg(r.status)) /\ Return(acc)
            ELSE /\ log' = log
                 /\ IF r.next = 0
                    THEN Return(acc \o ValueOf(r))
                    ELSE Continue(acc \o ValueOf(r), r.next)
    /\ UNCHANGED <<entry, arg, environ, token, posts, deletes>>

list_aoai_services ==
    /\ pc = "list_aoai_services"
    /\ \E r \in Answers("list_aoai_services") :
         /\ Get("accounts", r)
         /\ IF r.status # "ok"
            THEN log' = Append(log, ErrorMsg(r.status)) /\ Return(acc)
            ELSE LET f == FilterAccounts(ValueOf(r))
                 IN  IF f.kind = "KeyError"
                     THEN /\ log' = Append(log, Msg("Key error occurred", ""))
                          /\ Return(acc)
                     ELSE /\ log' = log
                          /\ IF r.next = 0
                             THEN Return(acc \o f.items)
                             ELSE Continue(acc \o f.items, r.next)
    /\ UNCHANGED <<entry, arg, environ, token, posts, deletes>>

\* The return of list_aoai_deployments: to timer_trigger's loop over the
\* deployments, or to a direct caller.
ReturnDeployments(list) ==
    IF entry = "timer_trigger"
    THEN /\ pc' = "for_deployment"
         /\ deps' = list
         /\ di' = 1
         /\ acc' = <<>>
         /\ url' = 1
         /\ UNCHANGED <<result, planPages, plans, pi, raised>>
    ELSE Return(list)

list_aoai_deployments ==
    /\ pc = "list_aoai_deployments"
    /\ \E r \in Answers("list_aoai_deployments") :
         /\ Get("deployments", r)
         /\ IF r.status # "ok"
            THEN /\ log' = Append(log, ErrorMsg(r.status))
                 /\ ReturnDeployments(acc)
            ELSE LET f == FilterDeployments(ValueOf(r))
                 IN  IF f.kind = "KeyError"
                     THEN /\ log' = Append(log, Msg("Key error occurred", ""))
                          /\ ReturnDeployments(acc)
                     ELSE /\ log' = log
                          /\ IF r.next = 0
                             THEN ReturnDeployments(acc \o f.items)
                             ELSE Continue(acc \o f.items, r.next)
    /\ UNCHANGED <<entry, arg, environ, token, posts, deletes>>

\* The return of list_aoai_expired_commitment_plans: to timer_trigger's
\* loop over the plans, or to a direct caller.
ReturnPlans(list) ==
    IF entry = "timer_trigger"
    THEN /\ pc' = "for_plan"
         /\ plans' = list
         /\ pi' = 1
         /\ planPages' = served'
         /\ acc' = <<>>
         /\ url' = 1
         /\ UNCHANGED <<result, deps, di, raised>>
    ELSE Return(list)

list_aoai_expired_commitment_plans ==
    /\ pc = "list_aoai_expired_commitment_plans"
    /\ \E r \in Answers("list_aoai_expired_commitment_plans") :
         /\ Get("commitmentPlans", r)
         /\ IF r.status # "ok"
            THEN /\ log' = Append(log, ErrorMsg(r.status))
                 /\ ReturnPlans(acc)
            ELSE LET p == ProcessPlanPage(acc, ValueOf(r))
                 IN  IF p.kind = "KeyError"
                     THEN /\ log' = (log \o p.logged)
                                      \o <<Msg("Key error occurred", "")>>
                          /\ ReturnPlans(p.list)
                     ELSE IF p.kind # "ok"
                     THEN /\ log' = log \o p.logged
                          /\ Raise(p.kind, p.list)
                     ELSE /\ log' = (IF r.next = 0 THEN log \o p.logged
                                   ELSE Keep(log, log \o p.logged))
                          /\ IF r.next = 0
                             THEN ReturnPlans(p.list)
                             ELSE Continue(p.list, r.next)
    /\ UNCHANGED <<entry, arg, environ, token, posts, deletes>>

\* delete_aoai_deployments with the return under "# TESTING" removed: the
\* DELETE request is sent, and here succeeds.
DeleteBodyLive(deployment_name) ==
    [logged |-> <<Msg("Deleting deployment", deployment_name),
                  Msg("deleted successfully", deployment_name)>>,
     requests |-> 1]

\* The body of delete_aoai_deployments as far as it runs: the logging call
\* and the return that precedes the request.
DeleteBody(deployment_name) ==
    [logged |-> <<Msg("Deleting deployment", deployment_name)>>,
     requests |-> 0]

delete_aoai_deployments ==
    /\ pc = "delete_aoai_deployments"
    /\ log' = log \o DeleteBody(arg).logged
    /\ deletes' = deletes + DeleteBody(arg).requests
    /\ pc' = "done"
    /\ UNCHANGED <<entry, arg, environ, token, posts, requested, raised, url,
                   acc, served, planPages, plans, pi, deps, di, result>>

\* -------------------------------------------------------- timer_trigger
\* os.getenv(name) if os.getenv(name) else ""
Setting(name) == IF environ[name] = NoneVal THEN "" ELSE environ[name]

\* get_auth_token: the token endpoint answers with a token, answers
\* without "access_token", or the request fails.
TokenOutcomes == {"token", "no_access_token", "transport"}

\* From the start of timer_trigger to its first management request:
\* get_auth_token, then the configuration.
timer_trigger ==
    /\ pc = "timer_trigger"
    /\ posts' = posts + 1
    /\ \E o \in TokenOutcomes :
         LET tok == IF o = "token" THEN "tok" ELSE NoneVal
             logged == IF o = "token" THEN <<>> ELSE <<Msg("Error", "")>>
         IN  /\ token' = tok
             /\ IF Setting("AZURE_SUBSCRIPTION_ID") = ""
                THEN /\ log' = (log \o logged)
                                 \o <<Msg("Subscription ID not given.", "")>>
                     /\ pc' = "done"
                ELSE IF Setting("AZURE_RESOURCE_GROUP_NAME") = ""
                THEN /\ log' = (log \o logged)
                                 \o <<Msg("Resource Group name not given.", "")>>
                     /\ pc' = "done"
                ELSE /\ log' = log \o logged
                     /\ pc' = "list_aoai_expired_commitment_plans"
    /\ url' = 1
    /\ acc' = <<>>
    /\ served' = <<>>
    /\ UNCHANGED <<entry, arg, environ, requested, deletes, raised, planPages,
                   plans, pi, deps, di, result>>

\* for commitment_plan in commitment_plan_to_check: the call of
\* list_aoai_deployments, or the end of the run.
for_plan ==
    /\ pc = "for_plan"
    /\ IF pi > Len(plans)
       THEN pc' = "done"
       ELSE pc' = "list_aoai_deployments"
    /\ url' = 1
    /\ acc' = <<>>
    /\ served' = (IF pi = 1 THEN <<>> ELSE served)
    /\ UNCHANGED <<entry, arg, environ, token, posts, requested, deletes, log,
                   raised, planPages, plans, pi, deps, di, result>>

\* for deployment in aoai_deployments: one logging call (the call of
\* delete_aoai_deployments is commented out), or the next plan.
for_deployment ==
    /\ pc = "for_deployment"
    /\ IF di > Len(deps)
       THEN /\ pc' = "for_plan"
            /\ pi' = pi + 1
            /\ UNCHANGED <<di, log, raised>>
       ELSE IF deps[di].name = NoField
       THEN /\ pc' = "raised"
            /\ raised' = "KeyError"
            /\ UNCHANGED <<pi, di, log>>
       ELSE /\ log' = Append(log, Msg("simulating delete deployment",
                                       deps[di].name))
            /\ di' = di + 1
            /\ UNCHANGED <<pc, pi, raised>>
    /\ UNCHANGED <<entry, arg, environ, token, posts, requested, deletes, url,
                   acc, served, planPages, plans, deps, result>>

Next ==
    \/ list_subscriptions
    \/ list_resource_groups
    \/ list_aoai_services
    \/ list_aoai_deployments
    \/ list_aoai_expired_commitment_plans
    \/ delete_aoai_deployments
    \/ timer_trigger
    \/ for_plan
    \/ for_deployment

Spec == Init /\ [][Next]_vars

\* Each request returns or raises, and the interpreter runs the next
\* statement: a step that can be taken is taken.
FairSpec == Spec /\ WF_vars(Next)

\* ------------------------------------------------------------- claims
\* Vocabulary of the properties, read off the histories and the log and
\* not off the functions above.
InRun == entry = "timer_trigger"

Terminal == pc \in {"done", "raised"}

IsSimulated(m) == m.msg = "simulating delete deployment"

Simulated == SelectSeq(log, IsSimulated)

\* The records of the pages that were fetched, in fetch order.
RECURSIVE RecordsIn(_)
RecordsIn(pages) ==
    IF pages = <<>> THEN <<>>
    ELSE (IF Head(pages).status = "ok" /\ Head(pages).hasValue
          THEN Head(pages).value ELSE <<>>) \o RecordsIn(Tail(pages))

\* A plan whose current period ended before now and that does not renew.
ExpiredNoRenew(r) ==
    r.endDate.form = "Z" /\ r.endDate.t < NowUtc /\ r.autoRenew = "False"

\* Every request of the traversal was answered with a page, and each page
\* but the last links to the next one.
AllSucceeded(pages) ==
    /\ pages # <<>>
    /\ \A k \in 1..Len(pages) :
         /\ pages[k].status = "ok"
         /\ pages[k].next = (IF k < Len(pages) THEN k + 1 ELSE 0)

ProvisionedNamed(r) == r.sku = "ProvisionedManaged" /\ r.name # NoField

\* C1: in a run of timer_trigger a deployment is reported for (simulated)
\* deletion only if a commitment plan fetched in the run has ended and does
\* not renew.
C1_ReportsOnlyUnderExpiredPlan ==
    (InRun /\ Simulated # <<>>) =>
        \E k \in 1..Len(RecordsIn(planPages)) :
            ExpiredNoRenew(RecordsIn(planPages)[k])

\* C2: no DELETE request is ever sent, whatever the configuration and the
\* service's responses; delete_aoai_deployments, when called, logs the
\* intended deletion and returns having sent no request of any kind.
C2_DryRun ==
    /\ deletes = 0
    /\ (entry = "delete_aoai_deployments" /\ pc = "done") =>
         /\ log = <<Msg("Deleting deployment", arg)>>
         /\ requested = {}
         /\ posts = 0

\* A run that reported two deployments and ended, and a direct call of
\* delete_aoai_deployments that returned, are both reachable.
C2_Witness ==
    \/ InRun /\ pc = "done" /\ Len(Simulated) >= 2 /\ deletes = 0
    \/ /\ entry = "delete_aoai_deployments"
       /\ pc = "done"
       /\ log = <<Msg("Deleting deployment", "d2")>>

\* The run of C3: the token was issued, the plan collection is one plan that
\* has ended and does not renew, the deployment collection is two
\* ProvisionedManaged deployments, and every request succeeded.
C3_Scenario ==
    /\ InRun
    /\ pc = "done"
    /\ token # NoneVal
    /\ AllSucceeded(planPages)
    /\ Len(RecordsIn(planPages)) = 1
    /\ ExpiredNoRenew(RecordsIn(planPages)[1])
    /\ AllSucceeded(served)
    /\ Len(RecordsIn(served)) = 2
    /\ \A k \in 1..2 : ProvisionedNamed(RecordsIn(served)[k])

\* C3: in that run exactly two "simulating delete deployment" messages are
\* logged and no DELETE request is sent.
C3_TwoSimulatedDeletes ==
    C3_Scenario => (Len(Simulated) = 2 /\ deletes = 0)

\* C5: after a failed token acquisition the run sends no request to the
\* management API, and the token request is sent once.
C5_TokenFailureIsFatal ==
    (InRun /\ pc # "timer_trigger" /\ token = NoneVal) =>
        (requested = {} /\ posts = 1)

\* C6: with the subscription id, the resource group name or the service
\* name unset or empty, the run sends no request but the token request.
C6_ConfigGuard ==
    (InRun /\ \E k \in DOMAIN environ : environ[k] \in {NoneVal, ""}) =>
        (requested = {} /\ posts <= 1)

\* C7: no run of timer_trigger ends in an exception.
C7_NoExceptionToHost ==
    InRun => (pc # "raised" /\ raised = NoneVal)

\* The pages were fetched one after the other: each page but the last was
\* answered and links to the next.
IsChain(pages) ==
    \A k \in 1..(Len(pages) - 1) :
        pages[k].status = "ok" /\ pages[k].next = k + 1

PageRecords(page) ==
    IF page.status = "ok" /\ page.hasValue THEN page.value ELSE <<>>

\* Every record of the pages carries a zone-marked endDate and autoRenew.
WellFormedPlans(pages) ==
    \A k \in 1..Len(RecordsIn(pages)) :
        /\ RecordsIn(pages)[k].endDate.form = "Z"
        /\ RecordsIn(pages)[k].autoRenew # NoField

\* Page by page, the page's ended and non-renewing plans, then all of the
\* page's plans.
RECURSIVE FlaggedThenAll(_)
FlaggedThenAll(pages) ==
    IF pages = <<>> THEN <<>>
    ELSE (SelectSeq(PageRecords(Head(pages)), ExpiredNoRenew)
            \o PageRecords(Head(pages))) \o FlaggedThenAll(Tail(pages))

\* A direct call of list_aoai_expired_commitment_plans returned after a
\* chain of pages that were all fetched and hold well-formed plans.
C4_Scenario ==
    /\ entry = "list_aoai_expired_commitment_plans"
    /\ pc = "done"
    /\ AllSucceeded(served)
    /\ WellFormedPlans(served)

LacksPlanField(r) == r.endDate.form = NoField \/ r.autoRenew = NoField

\* The first record of a page that lacks endDate or autoRenew.
FirstLacking(value) ==
    CHOOSE m \in 1..Len(value) :
        /\ LacksPlanField(value[m])
        /\ \A j \in 1..(m - 1) : ~LacksPlanField(value[j])

\* A direct call of list_aoai_expired_commitment_plans returned because a
\* record of the last page fetched lacks endDate or autoRenew.
C10_Scenario ==
    /\ entry = "list_aoai_expired_commitment_plans"
    /\ pc = "done"
    /\ served # <<>>
    /\ IsChain(served)
    /\ \E m \in 1..Len(PageRecords(served[Len(served)])) :
         LacksPlanField(PageRecords(served[Len(served)])[m])

\* C10 as stated: the result holds no record of the page whose handling
\* stopped, only what the earlier pages contributed.
C10_PageAllOrNothing ==
    C10_Scenario =>
        result = FlaggedThenAll(SubSeq(served, 1, Len(served) - 1))

\* C10 amended: the result is what the earlier pages contributed, followed
\* by the ended and non-renewing plans that precede the faulty record in
\* the page; no other record of that page is returned.
C10_FlaggedBeforeFaultKept ==
    C10_Scenario =>
        LET last == PageRecords(served[Len(served)])
        IN  result =
              FlaggedThenAll(SubSeq(served, 1, Len(served) - 1))
                \o SelectSeq(SubSeq(last, 1, FirstLacking(last) - 1),
                             ExpiredNoRenew)

\* The second page holds an ended, non-renewing plan and then a record
\* without endDate: the plan is in the result.
C10_Witness ==
    /\ C10_Scenario
    /\ Len(served) = 2
    /\ Len(PageRecords(served[2])) = 2
    /\ ExpiredNoRenew(PageRecords(served[2])[1])
    /\ PageRecords(served[2])[2].endDate.form = NoField
    /\ Len(result) > Len(FlaggedThenAll(SubSeq(served, 1, 1)))

FilteredFunctions ==
    {"list_subscriptions", "list_resource_groups", "list_aoai_services",
     "list_aoai_deployments"}

\* The filter of each function, on a record of its collection.
Accepts(fn, r) ==
    CASE fn = "list_aoai_services" -> r.kind = "OpenAI"
      [] fn = "list_aoai_deployments" -> r.sku = "ProvisionedManaged"
      [] OTHER -> TRUE

\* The record has no value under the key the function's filter reads.
LacksFilterKey(fn, r) ==
    CASE fn = "list_aoai_services" -> r.kind = NoField
      [] fn = "list_aoai_deployments" -> r.sku = NoField
      [] OTHER -> FALSE

\* The accepted items of pages 1..n, in fetch order and in page order.
RECURSIVE AcceptedUpTo(_, _, _)
AcceptedUpTo(fn, pages, n) ==
    IF n <= 0 THEN <<>>
    ELSE AcceptedUpTo(fn, pages, n - 1)
           \o SelectSeq(PageRecords(pages[n]), LAMBDA r : Accepts(fn, r))

\* The first page that was answered with an HTTP or transport error, or one
\* past the last page.
FirstError(pages) ==
    CHOOSE k \in 1..(Len(pages) + 1) :
        /\ k <= Len(pages) => pages[k].status # "ok"
        /\ \A j \in 1..(k - 1) : pages[j].status = "ok"

PageFails(fn, page) ==
    \/ page.status # "ok"
    \/ \E m \in 1..Len(PageRecords(page)) :
         LacksFilterKey(fn, PageRecords(page)[m])

\* The first page that was answered with an error or holds a record
\* without the filtered key, or one past the last page.
FirstFailure(fn, pages) ==
    CHOOSE k \in 1..(Len(pages) + 1) :
        /\ k <= Len(pages) => PageFails(fn, pages[k])
        /\ \A j \in 1..(k - 1) : ~PageFails(fn, pages[j])

\* A direct call of one of the four functions returned.
C8_Scenario ==
    /\ entry \in FilteredFunctions
    /\ pc = "done"
    /\ IsChain(served)

\* C8 as stated: the result is the accepted items of the pages fetched
\* before the first HTTP or transport error, and the failing request is
\* the last one.
C8_ConcatUntilHttpError ==
    C8_Scenario =>
        /\ result = AcceptedUpTo(entry, served, FirstError(served) - 1)
        /\ FirstError(served) >= Len(served)

\* C8 amended: the result is the accepted items of the pages fetched before
\* the first page that fails, where a page fails by an HTTP error, by a
\* transport error, or by holding a record without the key the filter
\* reads; no request follows the failing one.
C8_ConcatUntilFailure ==
    C8_Scenario =>
        /\ result = AcceptedUpTo(entry, served, FirstFailure(entry, served) - 1)
        /\ FirstFailure(entry, served) >= Len(served)

\* list_aoai_deployments returned the accepted item of page 1 after page 2
\* failed with an HTTP error, page 1 holding a rejected item too.
C8_Witness ==
    /\ C8_Scenario
    /\ entry = "list_aoai_deployments"
    /\ Len(served) = 2
    /\ served[2].status = "http"
    /\ Len(PageRecords(served[1])) = 2
    /\ Len(result) = 1

\* A page of the current traversal links to itself or to an earlier page.
BackLink ==
    \E k \in 1..Len(served) :
        served[k].status = "ok" /\ served[k].next \in 1..k

\* C9 as stated: every run of timer_trigger ends, whatever the service
\* answers.
C9_RunEnds == InRun => <>Terminal

\* C9 amended: every run of timer_trigger in which no page links to itself
\* or to a page fetched earlier in the same traversal ends, by returning or
\* by an exception.
C9_RunEndsUnlessBackLink == InRun => <>(Terminal \/ BackLink)

\* A run ended after two plan pages and two deployment pages.
C9_Witness ==
    /\ InRun
    /\ pc = "done"
    /\ Len(planPages) = 2
    /\ Len(served) = 2
    /\ ~BackLink
    /\ Simulated # <<>>

=============================================================================
